---- MODULE Spec2Model ----
(***************************************************************************)
(* QuantForge: the portfolio ledger (qtypes/portfolio.py,                  *)
(* qtypes/portfolio_position.py, qtypes/transaction.py), the metrics       *)
(* accumulator (qtypes/portfolio_metrics.py), data masking and bar         *)
(* extraction (backtesting/masked_data.py, backtesting/get_ohlc_data.py)   *)
(* and the day-stepped loop (backtesting/backtest_runner.py).              *)
(*                                                                         *)
(* Prices, quantities, costs and cash are floats in the program; they are  *)
(* integers here, so rounding is not modelled.  Dates are day numbers.     *)
(***************************************************************************)
EXTENDS Integers, Sequences, FiniteSets, TLC

\* ------------------------------------------------------------------ bounds
MaxDay == 3
MaxPositions == 2
MaxCalls == 2

Days == 1..MaxDay
TxDays == {1, 2}
AllowedItems == {"A", "B"}
AllItems == AllowedItems \cup {"Z"}
Qtys == {-1, 1, 2}
\* (price, transaction_cost) of the transactions tried
PriceCost == {<<1, 0>>, <<2, 1>>}
InitialCashes == {3}

VARIABLES
    \* Portfolio
    cash, open_positions, closed_positions, allow_margin, allow_short,
    initial_cash,
    \* the last ledger call and how it ended
    last,
    \* the dataset: ticker rows (item, timestamp), option rows (item, last_updated)
    \* and rows of any other data requirement; the requirements, of TICKER
    \* and OPTIONS, whose frames lack the timestamp index or the last_updated
    \* column
    ticker, options, other, malformed,
    \* BacktestConfig.end_date
    end_date,
    \* backtest_loop: the date list, the index and place in the loop body,
    \* the masked view and next-day bars of the current iteration, the number
    \* of ledger calls the running strategy.execute has made
    dates, idx, pc, masked_data, next_day_data, calls,
    \* PortfolioMetrics._value_history and ._returns_series, the cache of
    \* calculate_returns
    value_history, returns_series,
    \* what the loop has done so far: the indices valued and executed, in
    \* order; the indices whose execution was skipped for missing next-day
    \* bars; the value recorded at each index; the index at which
    \* strategy.execute raised; where PortfolioMetrics.update raised
    valued, executed, skipped, recorded, execRaised, staleRaised

ledger == <<cash, open_positions, closed_positions>>
flags == <<allow_margin, allow_short, initial_cash, end_date>>
dataset == <<ticker, options, other, malformed>>
observed == <<valued, executed, skipped, recorded, execRaised, staleRaised>>
loopvars == <<dates, idx, pc, masked_data, next_day_data, calls,
              value_history, returns_series, valued, executed, skipped,
              recorded, execRaised, staleRaised>>
vars == <<cash, open_positions, closed_positions, allow_margin, allow_short,
          initial_cash, last, ticker, options, other, malformed, end_date, dates,
          idx,
          pc, masked_data,
          next_day_data, calls, value_history, returns_series, valued,
          executed, skipped, recorded, execRaised, staleRaised>>

\* ------------------------------------------------------------ Transaction
\* A valid Transaction: quantity # 0, price > 0, transaction_cost >= 0.
Transaction(item, q, p, d, c) ==
    [tradeable_item |-> item, quantity |-> q, price |-> p, date |-> d,
     transaction_cost |-> c]

NoTransaction == Transaction("None", 0, 0, 0, 0)

\* the transactions the ledger is called with: item A at every quantity,
\* price and cost; item B, the second allowed item, at unit price without
\* cost; and one transaction of an item outside the allowed set
Transactions ==
    {Transaction("A", q, x[1], d, x[2]) :
        q \in Qtys, x \in PriceCost, d \in TxDays}
        \cup {Transaction("B", q, 1, d, 0) : q \in {-1, 1}, d \in TxDays}
        \cup {Transaction("Z", 1, 1, 1, 0)}

\* ------------------------------------------------------- PortfolioPosition
PortfolioPosition(t) == [open_transaction |-> t, close_transaction |-> NoTransaction]

is_closed(position) == position.close_transaction # NoTransaction

cost_basis(position) ==
    position.open_transaction.price * position.open_transaction.quantity
        + position.open_transaction.transaction_cost

sale_proceeds(position) ==
    IF ~is_closed(position) THEN 0
    ELSE position.close_transaction.price * (-position.close_transaction.quantity)
            - position.close_transaction.transaction_cost

position_value(position, price) ==
    IF is_closed(position) THEN 0
    ELSE price * position.open_transaction.quantity

\* faulty variant: the cost of the opening transaction is forgotten
realized_profit_loss_no_cost(position) ==
    IF ~is_closed(position) THEN 0
    ELSE sale_proceeds(position)
            - position.open_transaction.price * position.open_transaction.quantity

\* PortfolioPosition.realized_profit_loss
realized_profit_loss(position) ==
    IF ~is_closed(position) THEN 0
    ELSE sale_proceeds(position) - cost_basis(position)

\* PortfolioPosition.close: "ok" or the reason it raises ValueError.
PositionCloseError(position, t) ==
    IF is_closed(position) THEN "already closed"
    ELSE IF t.tradeable_item # position.open_transaction.tradeable_item
        THEN "item mismatch"
    ELSE IF t.date < position.open_transaction.date THEN "date"
    ELSE IF t.quantity # -position.open_transaction.quantity THEN "quantity"
    ELSE "ok"

PositionClose(position, t) == [position EXCEPT !.close_transaction = t]

\* --------------------------------------------------------------- helpers
SeqSet(s) == {s[k] : k \in 1..Len(s)}

RECURSIVE SumSeq(_, _)
SumSeq(F(_), s) == IF s = <<>> THEN 0 ELSE F(Head(s)) + SumSeq(F, Tail(s))

InSeq(x, s) == \E k \in 1..Len(s) : s[k] = x

\* list.remove(x): drops the first element equal to x.
RECURSIVE ListRemove(_, _)
ListRemove(s, x) ==
    IF s = <<>> THEN <<>>
    ELSE IF Head(s) = x THEN Tail(s)
    ELSE <<Head(s)>> \o ListRemove(Tail(s), x)

\* every open position, item by item
RECURSIVE FlattenOpen(_, _)
FlattenOpen(m, keys) ==
    IF keys = {} THEN <<>>
    ELSE LET k == CHOOSE x \in keys : TRUE
         IN m[k] \o FlattenOpen(m, keys \ {k})

AllOpen == FlattenOpen(open_positions, DOMAIN open_positions)

PositionCount == Len(AllOpen) + Len(closed_positions)

\* ------------------------------------------------------------- Portfolio
\* Portfolio.realized_profit_loss
portfolio_realized_profit_loss == SumSeq(realized_profit_loss, closed_positions)

has_position(item) ==
    item \in DOMAIN open_positions /\ Len(open_positions[item]) > 0

\* faulty variant: a purchase that takes exactly all the cash needs margin
can_trade_strict(t) ==
    IF t.tradeable_item \notin AllowedItems THEN FALSE
    ELSE IF /\ t.tradeable_item \in DOMAIN open_positions
            /\ \E k \in 1..Len(open_positions[t.tradeable_item]) :
                   open_positions[t.tradeable_item][k].open_transaction.quantity
                       = -t.quantity
        THEN TRUE
    ELSE IF t.quantity < 0 THEN allow_short
    ELSE IF cash <= t.price * t.quantity + t.transaction_cost THEN allow_margin
    ELSE TRUE

can_trade(t) ==
    IF t.tradeable_item \notin AllowedItems THEN FALSE
    ELSE IF /\ t.tradeable_item \in DOMAIN open_positions
            /\ \E k \in 1..Len(open_positions[t.tradeable_item]) :
                   open_positions[t.tradeable_item][k].open_transaction.quantity
                       = -t.quantity
        THEN TRUE
    ELSE IF t.quantity < 0 THEN allow_short
    ELSE IF cash < t.price * t.quantity + t.transaction_cost THEN allow_margin
    ELSE TRUE

\* portfolio_value: the value, or the missing-price error.
PricesMissing(prices) ==
    \E k \in 1..Len(AllOpen) :
        AllOpen[k].open_transaction.tradeable_item \notin DOMAIN prices

PositionMark(prices, position) ==
    position_value(position, prices[position.open_transaction.tradeable_item])

\* faulty variant: the cash is left out of the total
portfolio_value_positions_only(prices) ==
    LET Mark(p) == PositionMark(prices, p)
    IN SumSeq(Mark, AllOpen)

portfolio_value(prices) ==
    LET Mark(p) == PositionMark(prices, p)
    IN cash + SumSeq(Mark, AllOpen)

\* what the last ledger call was and how it ended (err: why it raised)
Call(op, err, ret) == [op |-> op, err |-> err, ret |-> ret]

NoCall == Call("none", "none", FALSE)

\* Portfolio.can_trade, called
CanTradeCall(t) ==
    /\ last' = Call("can_trade", "none", can_trade(t))
    /\ UNCHANGED ledger

\* Portfolio.portfolio_value, called: the total, or the missing-price error
\* raised at the first open position whose item has no price
PortfolioValueCall(prices) ==
    /\ last' = IF PricesMissing(prices)
               THEN Call("portfolio_value", "price not found", 0)
               ELSE Call("portfolio_value", "none", portfolio_value(prices))
    /\ UNCHANGED ledger

\* faulty variant: the transaction cost is not charged
OpenCashNoCost(t) == cash - t.price * t.quantity

OpenCash(t) == cash - (t.price * t.quantity + t.transaction_cost)

\* faulty variant: the new position replaces the item's list
OpenMapReplace(t) ==
    LET item == t.tradeable_item
        position == PortfolioPosition(t)
    IN IF item \in DOMAIN open_positions
       THEN [open_positions EXCEPT ![item] = <<position>>]
       ELSE open_positions @@ (item :> <<position>>)

\* faulty variant: an opposite position of the same size is netted away
OpenMapNetting(t) ==
    LET item == t.tradeable_item
        position == PortfolioPosition(t)
        Opposite(k) ==
            open_positions[item][k].open_transaction.quantity = -t.quantity
    IN IF item \in DOMAIN open_positions
       THEN IF \E k \in 1..Len(open_positions[item]) : Opposite(k)
            THEN LET k == CHOOSE j \in 1..Len(open_positions[item]) : Opposite(j)
                 IN [open_positions EXCEPT
                        ![item] = ListRemove(@, open_positions[item][k])]
            ELSE [open_positions EXCEPT ![item] = Append(@, position)]
       ELSE open_positions @@ (item :> <<position>>)

OpenMap(t) ==
    LET item == t.tradeable_item
        position == PortfolioPosition(t)
    IN IF item \in DOMAIN open_positions
       THEN [open_positions EXCEPT ![item] = Append(@, position)]
       ELSE open_positions @@ (item :> <<position>>)

\* faulty variant: only the allowed items are checked
OpenErrorAllowedOnly(t) ==
    IF t.tradeable_item \notin AllowedItems THEN "cannot be executed" ELSE "none"

\* lines 232-234: the check of open_position, "none" when it passes
OpenError(t) == IF ~can_trade(t) THEN "cannot be executed" ELSE "none"

\* Portfolio.open_position
open_position(t) ==
    IF OpenError(t) # "none"
    THEN /\ last' = Call("open_position", OpenError(t), FALSE)
         /\ UNCHANGED ledger
    ELSE /\ open_positions' = OpenMap(t)
         /\ cash' = OpenCash(t)
         /\ UNCHANGED closed_positions
         /\ last' = Call("open_position", "none", TRUE)

\* faulty variant: a close dated the day of the open passes
ClosePositionErrorSameDay(position, c) ==
    LET item == position.open_transaction.tradeable_item
    IN IF is_closed(position) THEN "already closed"
       ELSE IF c.tradeable_item # item THEN "item mismatch"
       ELSE IF c.date < position.open_transaction.date THEN "date"
       ELSE IF c.quantity # -position.open_transaction.quantity THEN "quantity"
       ELSE IF item \notin DOMAIN open_positions THEN "KeyError"
       ELSE IF ~InSeq(position, open_positions[item]) THEN "not found"
       ELSE "ok"

\* faulty variant: the date of the close is not checked
ClosePositionErrorAnyDate(position, c) ==
    LET item == position.open_transaction.tradeable_item
    IN IF is_closed(position) THEN "already closed"
       ELSE IF c.tradeable_item # item THEN "item mismatch"
       ELSE IF c.quantity # -position.open_transaction.quantity THEN "quantity"
       ELSE IF item \notin DOMAIN open_positions THEN "KeyError"
       ELSE IF ~InSeq(position, open_positions[item]) THEN "not found"
       ELSE "ok"

\* faulty variant: the quantity of the close is not checked
ClosePositionErrorPartial(position, c) ==
    LET item == position.open_transaction.tradeable_item
    IN IF is_closed(position) THEN "already closed"
       ELSE IF c.tradeable_item # item THEN "item mismatch"
       ELSE IF c.date <= position.open_transaction.date THEN "date"
       ELSE IF item \notin DOMAIN open_positions THEN "KeyError"
       ELSE IF ~InSeq(position, open_positions[item]) THEN "not found"
       ELSE "ok"

\* Portfolio.close_position: the check that rejects the call, or "ok"
ClosePositionError(position, c) ==
    LET item == position.open_transaction.tradeable_item
    IN IF is_closed(position) THEN "already closed"
       ELSE IF c.tradeable_item # item THEN "item mismatch"
       ELSE IF c.date <= position.open_transaction.date THEN "date"
       ELSE IF c.quantity # -position.open_transaction.quantity THEN "quantity"
       ELSE IF item \notin DOMAIN open_positions THEN "KeyError"
       ELSE IF ~InSeq(position, open_positions[item]) THEN "not found"
       ELSE "ok"

\* faulty variant: every position equal to the closed one is dropped
CloseMapAll(position) ==
    LET item == position.open_transaction.tradeable_item
        rest == SelectSeq(open_positions[item], LAMBDA x : x # position)
    IN IF rest = <<>>
       THEN [k \in DOMAIN open_positions \ {item} |-> open_positions[k]]
       ELSE [open_positions EXCEPT ![item] = rest]

\* faulty variant: the closed position stays on the open map
CloseMapKeep(position) == open_positions

CloseMap(position) ==
    LET item == position.open_transaction.tradeable_item
        rest == ListRemove(open_positions[item], position)
    IN IF rest = <<>>
       THEN [k \in DOMAIN open_positions \ {item} |-> open_positions[k]]
       ELSE [open_positions EXCEPT ![item] = rest]

\* the transaction close_position builds from the position and the close
CloseTransaction(position, c) ==
    Transaction(position.open_transaction.tradeable_item,
                -position.open_transaction.quantity, c.price, c.date,
                c.transaction_cost)

\* faulty variant: the cost of the closing transaction is not charged
CloseCashGross(closed_position) ==
    cash + closed_position.close_transaction.price
               * (-closed_position.close_transaction.quantity)

CloseCash(closed_position) == cash + sale_proceeds(closed_position)

\* Transaction.__post_init__: "ok" or the validation that raises
TransactionError(t) ==
    IF t.quantity = 0 THEN "zero quantity"
    ELSE IF t.price <= 0 THEN "price"
    ELSE IF t.transaction_cost < 0 THEN "cost"
    ELSE "ok"

\* what can still raise once the position is off the open map: building
\* the closing transaction, then PortfolioPosition.close
CloseLateError(position, c) ==
    IF TransactionError(CloseTransaction(position, c)) # "ok"
    THEN TransactionError(CloseTransaction(position, c))
    ELSE PositionCloseError(position, CloseTransaction(position, c))

\* Portfolio.close_position: the checks, the removal from the open map,
\* then the closing transaction, the closed position and the cash
close_position(position, c) ==
    LET err == ClosePositionError(position, c)
        t == CloseTransaction(position, c)
        closed_position == PositionClose(position, t)
    IN IF err # "ok"
       THEN /\ last' = Call("close_position", err, FALSE)
            /\ UNCHANGED ledger
       ELSE IF CloseLateError(position, c) # "ok"
       THEN /\ open_positions' = CloseMap(position)
            /\ last' = Call("close_position", CloseLateError(position, c), FALSE)
            /\ UNCHANGED <<cash, closed_positions>>
       ELSE /\ open_positions' = CloseMap(position)
            /\ closed_positions' = Append(closed_positions, closed_position)
            /\ cash' = CloseCash(closed_position)
            /\ last' = Call("close_position", "none", TRUE)

\* Portfolio.__init__
PortfolioInit(margins, shorts) ==
    /\ initial_cash \in InitialCashes
    /\ cash = initial_cash
    /\ allow_margin \in margins
    /\ allow_short \in shorts
    /\ open_positions = <<>>
    /\ closed_positions = <<>>
    /\ last = NoCall

\* ------------------------------------------------------------ the dataset
\* A timestamp is day * TicksPerDay + time of day; a date is a day number.
TicksPerDay == 2

Timestamp(day, tod) == day * TicksPerDay + tod

\* pd.Timestamp(date, tz="UTC"): midnight of the date
Midnight(day) == Timestamp(day, 0)

\* DatetimeIndex.date: the calendar date of a timestamp
DateOf(ts) == ts \div TicksPerDay

\* a ticker row, indexed by its timestamp
Row(item, ts) == [item |-> item, ts |-> ts]

\* an option snapshot row, with its last_updated column
OptionRow(item, ts) == [item |-> item, last_updated |-> ts]

\* the open price of the bar of an item on a day
OpenPrice(item, day) == IF item = "A" THEN 1 + (day % 2) ELSE 1

OHLCData(day, open) == [date |-> day, open |-> open]

\* extract_ohlc_data: the bar of every allowed item that has a ticker row
\* on data_date
extract_ohlc_data(data_date) ==
    [item \in {i \in AllowedItems :
                  \E r \in ticker : r.item = i /\ DateOf(r.ts) = data_date}
        |-> OHLCData(data_date, OpenPrice(item, data_date))]

\* faulty variant: nothing is filtered
create_masked_data_unfiltered(cutoff_date) ==
    [ticker |-> ticker, options |-> options]

\* create_masked_data: ticker rows by timestamp, option rows by last_updated
create_masked_data(cutoff_date) ==
    [ticker |-> {r \in ticker : r.ts <= Midnight(cutoff_date)},
     options |-> {r \in options : r.last_updated <= Midnight(cutoff_date)}]

NoMaskedData == [ticker |-> {}, options |-> {}]

\* faulty variant: a frame of another requirement is let through
MaskErrorsStructureOnly ==
    IF malformed # {} THEN {"ValueError"} ELSE {}

\* the errors create_masked_data can raise for the dataset, one per kind of
\* frame it cannot mask; it raises the one of the first such frame it meets
MaskErrors ==
    (IF malformed # {} THEN {"ValueError"} ELSE {})
        \cup (IF other # {} THEN {"NotImplementedError"} ELSE {})

\* -------------------------------------------------------- PortfolioMetrics
Entry(d, v) == [date |-> d, value |-> v]

\* PortfolioMetrics.__init__
MetricsInit(start) == <<Entry(start, initial_cash)>>

\* faulty variant: no date is out of order
UpdateStaleNever(h, d) == FALSE

\* PortfolioMetrics.update raises its out-of-order error
UpdateStale(h, d) == h # <<>> /\ d < h[Len(h)].date

\* faulty variant: an update for the last recorded date is appended
update_append(h, d, v) ==
    IF h = <<>> \/ d >= h[Len(h)].date THEN Append(h, Entry(d, v))
    ELSE h

\* faulty variant: an update for the last recorded date keeps the old value
update_keep_first(h, d, v) ==
    IF h = <<>> \/ d > h[Len(h)].date THEN Append(h, Entry(d, v))
    ELSE h

\* PortfolioMetrics.update, when it does not raise
update(h, d, v) ==
    IF h = <<>> \/ d > h[Len(h)].date THEN Append(h, Entry(d, v))
    ELSE IF d = h[Len(h)].date THEN [h EXCEPT ![Len(h)] = Entry(d, v)]
    ELSE h

\* _returns_series = None: nothing cached
NoReturnsSeries == [kind |-> "None", num |-> 0, den |-> 1]

\* faulty variant: only an appended date drops the cache
update_returns_series_on_append(h, d, cache) ==
    IF h = <<>> \/ d > h[Len(h)].date THEN NoReturnsSeries ELSE cache

\* _returns_series after update: dropped when the date is appended and
\* when the last value is overwritten, kept when update raises
update_returns_series(h, d, cache) ==
    IF h = <<>> \/ d > h[Len(h)].date THEN NoReturnsSeries
    ELSE IF d = h[Len(h)].date THEN NoReturnsSeries
    ELSE cache

\* ---------------------------------------------------------- backtest_loop
\* Portfolio.start_date: the first day
start_date == CHOOSE d \in Days : \A e \in Days : d <= e

\* items_to_price: the items with open positions
HeldItems == {item \in DOMAIN open_positions : open_positions[item] # <<>>}

\* current_prices: the open price of every held item that has a bar
CurrentPrices(raw) == [item \in DOMAIN raw \cap HeldItems |-> raw[item].open]

\* faulty variant: a day without any bar records nothing
ValuationBranchNoData(raw) ==
    IF DOMAIN raw # {}
    THEN IF HeldItems = {} THEN "cash"
         ELSE IF HeldItems \subseteq DOMAIN CurrentPrices(raw) THEN "held"
         ELSE "skip"
    ELSE "skip"

\* the branch the valuation of a day takes: "cash" records cash, "held"
\* values the open positions, "skip" records nothing
ValuationBranch(raw) ==
    IF DOMAIN raw # {}
    THEN IF HeldItems = {} THEN "cash"
         ELSE IF HeldItems \subseteq DOMAIN CurrentPrices(raw) THEN "held"
         ELSE "skip"
    ELSE IF \A item \in DOMAIN open_positions : open_positions[item] = <<>>
         THEN "cash"
         ELSE "skip"

\* faulty variant: the cash of the start instead of the current ledger
ValuationValueInitial(branch, raw) ==
    IF branch = "cash" THEN initial_cash
    ELSE initial_cash + SumSeq(LAMBDA p : PositionMark(CurrentPrices(raw), p),
                               AllOpen)

ValuationValue(branch, raw) ==
    IF branch = "cash" THEN cash ELSE portfolio_value(CurrentPrices(raw))

\* lines 34-78: value the portfolio at the bars of dates[idx]
Valuation ==
    /\ pc = "loop"
    /\ idx <= Len(dates)
    /\ LET current_date == dates[idx]
           raw == extract_ohlc_data(current_date)
           branch == ValuationBranch(raw)
           stale == UpdateStale(value_history, current_date)
           value == ValuationValue(branch, raw)
       IN /\ valued' = Append(valued, idx)
          /\ IF branch = "skip"
                 \/ (branch = "held" /\ PricesMissing(CurrentPrices(raw)))
             THEN /\ pc' = "mask"
                  /\ UNCHANGED <<value_history, returns_series, recorded, staleRaised>>
             ELSE IF ~stale
             THEN /\ value_history' = update(value_history, current_date, value)
                  /\ returns_series' = update_returns_series(value_history,
                                           current_date, returns_series)
                  /\ recorded' = recorded @@ (idx :> value)
                  /\ pc' = "mask"
                  /\ UNCHANGED staleRaised
             ELSE \* the error of update: caught around portfolio_value only
                  /\ staleRaised' = branch
                  /\ pc' = IF branch = "held" THEN "mask" ELSE "raised"
                  /\ UNCHANGED <<value_history, returns_series, recorded>>
    /\ UNCHANGED <<ledger, flags, last, dataset, dates, idx, masked_data,
                   next_day_data, calls, executed, skipped, execRaised>>

\* faulty variant: the last two dates are without execution
NotLastDateOffByOne(i) == i < Len(dates) - 1

\* line 86: i < len(filtered_trading_dates) - 1, for the 1-based index
NotLastDate(i) == i < Len(dates)

\* faulty variant: the bars of the current date are the execution bars
NextDateSame(i) == dates[i]

\* line 87: next_date
NextDate(i) == dates[i + 1]

\* lines 82-93: mask, extract the next-day bars and call strategy.execute
Dispatch ==
    /\ pc = "mask"
    /\ NotLastDate(idx)
    /\ DOMAIN extract_ohlc_data(NextDate(idx)) # {}
    /\ masked_data' = create_masked_data(dates[idx])
    /\ next_day_data' = extract_ohlc_data(NextDate(idx))
    /\ executed' = Append(executed, idx)
    /\ calls' = 0
    /\ pc' = "exec"
    /\ UNCHANGED <<ledger, flags, last, dataset, dates, idx, value_history, returns_series,
                   valued, skipped, recorded, execRaised, staleRaised>>

\* faulty variant: missing next-day bars end the loop
AfterSkipBreak == "done"

\* where the loop goes when the next-day bars are missing
AfterSkip == "loop"

\* lines 82-97: mask, extract the next-day bars, none: no execution
SkipExecution ==
    /\ pc = "mask"
    /\ NotLastDate(idx)
    /\ DOMAIN extract_ohlc_data(NextDate(idx)) = {}
    /\ masked_data' = create_masked_data(dates[idx])
    /\ next_day_data' = extract_ohlc_data(NextDate(idx))
    /\ skipped' = skipped \cup {idx}
    /\ idx' = idx + 1
    /\ pc' = AfterSkip
    /\ UNCHANGED <<ledger, flags, last, dataset, dates, calls, value_history, returns_series,
                   valued, executed, recorded, execRaised, staleRaised>>

\* faulty variant: on the last date the loop itself sells every open
\* position at its opening price
LastDateLiquidate ==
    /\ pc = "mask"
    /\ ~NotLastDate(idx)
    /\ masked_data' = create_masked_data(dates[idx])
    /\ idx' = idx + 1
    /\ pc' = "loop"
    /\ LET sold == [k \in 1..Len(AllOpen) |->
                       PositionClose(AllOpen[k],
                           CloseTransaction(AllOpen[k],
                               Transaction(AllOpen[k].open_transaction.tradeable_item,
                                           0, AllOpen[k].open_transaction.price,
                                           dates[idx], 0)))]
       IN /\ open_positions' = [item \in DOMAIN open_positions |-> <<>>]
          /\ closed_positions' = closed_positions \o sold
          /\ cash' = cash + SumSeq(sale_proceeds, sold)
    /\ UNCHANGED <<flags, last, dataset, dates, next_day_data, calls,
                   value_history, returns_series, observed>>

\* lines 82, 98-101: mask; the last date has no execution
LastDate ==
    /\ pc = "mask"
    /\ ~NotLastDate(idx)
    /\ masked_data' = create_masked_data(dates[idx])
    /\ idx' = idx + 1
    /\ pc' = "loop"
    /\ UNCHANGED <<ledger, flags, last, dataset, dates, next_day_data, calls,
                   value_history, returns_series, observed>>

\* the loop is over: backtest_loop returns
Return ==
    /\ pc = "loop"
    /\ idx > Len(dates)
    /\ pc' = "done"
    /\ UNCHANGED <<ledger, flags, last, dataset, dates, idx, masked_data,
                   next_day_data, calls, value_history, returns_series, observed>>

\* ------------------------------------------------------- strategy.execute
\* The strategy is any sequence of ledger calls priced and dated from the
\* next-day bars, ended by a return or by an error.
StrategyQtys == {-1, 1}

StrategyTransactions ==
    {Transaction(item, q, next_day_data[item].open, next_day_data[item].date, 0) :
        item \in DOMAIN next_day_data, q \in StrategyQtys}

StrategyCloseTransaction(position) ==
    LET item == position.open_transaction.tradeable_item
    IN Transaction(item, -position.open_transaction.quantity,
                   next_day_data[item].open, next_day_data[item].date, 0)

StrategyFrame ==
    UNCHANGED <<flags, dataset, dates, idx, pc, masked_data, next_day_data,
                value_history, returns_series, observed>>

StrategyOpen ==
    /\ pc = "exec"
    /\ calls < MaxCalls
    /\ PositionCount < MaxPositions
    /\ \E t \in StrategyTransactions : open_position(t)
    /\ calls' = calls + 1
    /\ StrategyFrame

StrategyClose ==
    /\ pc = "exec"
    /\ calls < MaxCalls
    /\ \E k \in 1..Len(AllOpen) :
           /\ AllOpen[k].open_transaction.tradeable_item \in DOMAIN next_day_data
           /\ close_position(AllOpen[k], StrategyCloseTransaction(AllOpen[k]))
    /\ calls' = calls + 1
    /\ StrategyFrame

\* strategy.execute returns: the next iteration
StrategyReturn ==
    /\ pc = "exec"
    /\ idx' = idx + 1
    /\ pc' = "loop"
    /\ UNCHANGED <<ledger, flags, last, dataset, dates, masked_data,
                   next_day_data, calls, value_history, returns_series, observed>>

\* faulty variant: the error of strategy.execute is caught, the loop goes on
OnExecuteErrorCaught == "loop"

\* where backtest_loop goes when strategy.execute raises: line 93 is in no
\* try block, the error leaves the loop
OnExecuteError == "raised"

StrategyRaise ==
    /\ pc = "exec"
    /\ execRaised' = idx
    /\ pc' = OnExecuteError
    /\ idx' = IF OnExecuteError = "loop" THEN idx + 1 ELSE idx
    /\ UNCHANGED <<ledger, flags, last, dataset, dates, masked_data,
                   next_day_data, calls, value_history, returns_series, valued, executed,
                   skipped, recorded, staleRaised>>

\* ---------------------------------------------------- the loop's inputs
RECURSIVE Ascending(_)
\* the strictly ascending lists of the days of a set
Ascending(S) ==
    IF S = {} THEN <<>>
    ELSE LET m == CHOOSE d \in S : \A e \in S : d <= e
         IN <<m>> \o Ascending(S \ {m})

DateLists == {Ascending(S) : S \in SUBSET Days}

\* daily bars: one row per item and day, stamped at midnight
DailyRows == {Row(item, Midnight(day)) : item \in AllowedItems, day \in Days}

\* BacktestConfig.end_date = None
NoEndDate == -1

LoopStart ==
    /\ other = {}
    /\ malformed = {}
    /\ end_date = NoEndDate
    /\ idx = 1
    /\ pc = "loop"
    /\ masked_data = NoMaskedData
    /\ next_day_data = <<>>
    /\ calls = 0
    /\ value_history = MetricsInit(start_date)
    /\ returns_series = NoReturnsSeries
    /\ valued = <<>>
    /\ executed = <<>>
    /\ skipped = {}
    /\ recorded = <<>>
    /\ execRaised = 0
    /\ staleRaised = "no"

\* backtest_loop as run_backtest calls it: ascending dates from start_date
\* on, a metrics accumulator built from the portfolio
Init ==
    /\ PortfolioInit({FALSE}, {TRUE})
    /\ dates \in DateLists
    /\ ticker \in SUBSET DailyRows
    /\ options = {}
    /\ LoopStart

Next ==
    \/ Valuation
    \/ Dispatch
    \/ SkipExecution
    \/ LastDate
    \/ Return
    \/ StrategyOpen
    \/ StrategyClose
    \/ StrategyReturn
    \/ StrategyRaise

Spec == Init /\ [][Next]_vars

\* ------------------------------------------------- the ledger, called freely
LoopIdle ==
    /\ dates = <<>>
    /\ ticker = {}
    /\ options = {}
    /\ other = {}
    /\ malformed = {}
    /\ end_date = NoEndDate
    /\ idx = 0
    /\ pc = "idle"
    /\ masked_data = NoMaskedData
    /\ next_day_data = <<>>
    /\ calls = 0
    /\ value_history = <<>>
    /\ returns_series = NoReturnsSeries
    /\ valued = <<>>
    /\ executed = <<>>
    /\ skipped = {}
    /\ recorded = <<>>
    /\ execRaised = 0
    /\ staleRaised = "no"

InitLedger == PortfolioInit(BOOLEAN, BOOLEAN) /\ LoopIdle

\* positions a caller can hold: tracked, closed, or built by the caller
CallerPositions ==
    {AllOpen[k] : k \in 1..Len(AllOpen)}
        \cup {closed_positions[k] : k \in 1..Len(closed_positions)}
        \cup {PortfolioPosition(Transaction(i, 1, 1, 1, 0)) : i \in AllowedItems}

LedgerCanTrade ==
    /\ \E t \in Transactions : CanTradeCall(t)
    /\ UNCHANGED <<flags, dataset, loopvars>>

LedgerOpen ==
    /\ PositionCount < MaxPositions
    /\ \E t \in Transactions : open_position(t)
    /\ UNCHANGED <<flags, dataset, loopvars>>

LedgerClose ==
    /\ \E position \in CallerPositions, c \in Transactions :
           close_position(position, c)
    /\ UNCHANGED <<flags, dataset, loopvars>>

\* prices a caller passes to portfolio_value: any items, any open price
MarkPrices == {1, 2}

PriceMaps == UNION {[S -> MarkPrices] : S \in SUBSET AllowedItems}

LedgerValue ==
    /\ \E prices \in PriceMaps : PortfolioValueCall(prices)
    /\ UNCHANGED <<flags, dataset, loopvars>>

NextLedger == LedgerCanTrade \/ LedgerOpen \/ LedgerClose \/ LedgerValue

SpecLedger == InitLedger /\ [][NextLedger]_vars

\* ------------------------------------------- backtest_loop, any date list
\* backtest_loop called with a date list in any order: a date earlier than
\* the last recorded one makes PortfolioMetrics.update raise
RECURSIVE Orderings(_)
Orderings(S) ==
    IF S = {} THEN {<<>>}
    ELSE UNION {{<<d>> \o rest : rest \in Orderings(S \ {d})} : d \in S}

AnyDateLists == UNION {Orderings(S) : S \in SUBSET Days}

InitAnyOrder ==
    /\ PortfolioInit({FALSE}, {TRUE})
    /\ dates \in AnyDateLists
    /\ ticker \in SUBSET DailyRows
    /\ options = {}
    /\ LoopStart

SpecAnyOrder == InitAnyOrder /\ [][Next]_vars

\* --------------------------------------------- create_masked_data, called
SmallSubsets(S) == {{}} \cup {{a, b} : a, b \in S}

TickerRows ==
    {Row(item, Timestamp(day, tod)) :
        item \in AllowedItems, day \in Days, tod \in 0..(TicksPerDay - 1)}

OptionRows ==
    {OptionRow(item, Timestamp(day, tod)) :
        item \in AllowedItems, day \in Days, tod \in 0..(TicksPerDay - 1)}

\* the cutoff date of the call is dates[1]
InitMask ==
    /\ PortfolioInit({FALSE}, {FALSE})
    /\ dates \in {<<d>> : d \in Days}
    /\ ticker \in SmallSubsets(TickerRows)
    /\ options \in SmallSubsets(OptionRows)
    /\ other = {}
    /\ malformed = {}
    /\ end_date = NoEndDate
    /\ idx = 1
    /\ pc = "call"
    /\ masked_data = NoMaskedData
    /\ next_day_data = <<>>
    /\ calls = 0
    /\ value_history = <<>>
    /\ returns_series = NoReturnsSeries
    /\ valued = <<>>
    /\ executed = <<>>
    /\ skipped = {}
    /\ recorded = <<>>
    /\ execRaised = 0
    /\ staleRaised = "no"

\* create_masked_data(input_data, dates[idx]): the view, or the error of
\* the first frame that cannot be masked, in the order of the dataset
MaskCall ==
    /\ pc = "call"
    /\ IF MaskErrors = {}
       THEN /\ masked_data' = create_masked_data(dates[idx])
            /\ pc' = "masked"
            /\ UNCHANGED last
       ELSE /\ \E err \in MaskErrors : last' = Call("create_masked_data", err, FALSE)
            /\ pc' = "raised"
            /\ UNCHANGED masked_data
    /\ UNCHANGED <<ledger, flags, dataset, dates, idx, next_day_data,
                   calls, value_history, returns_series, observed>>

NextMask == MaskCall

SpecMask == InitMask /\ [][NextMask]_vars

\* ------------------- create_masked_data, called with frames of any kind
\* rows of a requirement that is neither TICKER nor OPTIONS
OtherRows == {Row(item, Midnight(day)) : item \in AllowedItems, day \in {1, MaxDay}}

InitMaskAny ==
    /\ PortfolioInit({FALSE}, {FALSE})
    /\ dates \in {<<d>> : d \in Days}
    /\ ticker \in SmallSubsets(TickerRows)
    /\ options \in {{}} \cup {{r} : r \in OptionRows}
    /\ other \in {{}} \cup {{r} : r \in OtherRows}
    /\ malformed \in SUBSET {"TICKER", "OPTIONS"}
    /\ end_date = NoEndDate
    /\ idx = 1
    /\ pc = "call"
    /\ masked_data = NoMaskedData
    /\ next_day_data = <<>>
    /\ calls = 0
    /\ value_history = <<>>
    /\ returns_series = NoReturnsSeries
    /\ valued = <<>>
    /\ executed = <<>>
    /\ skipped = {}
    /\ recorded = <<>>
    /\ execRaised = 0
    /\ staleRaised = "no"

SpecMaskAny == InitMaskAny /\ [][NextMask]_vars

\* ------------------------------- the ledger without margin, called freely
\* the transactions of the ledger calls, and a purchase that costs more
\* than the cash a portfolio can hold
MarginTransactions == Transactions \cup {Transaction("A", 1, 5, 2, 0)}

InitMargin == PortfolioInit({FALSE}, BOOLEAN) /\ LoopIdle

MarginOpen ==
    /\ PositionCount < MaxPositions
    /\ \E t \in MarginTransactions : open_position(t)
    /\ UNCHANGED <<flags, dataset, loopvars>>

NextMargin == MarginOpen \/ LedgerClose

SpecMargin == InitMargin /\ [][NextMargin]_vars

\* ------------------------ the lists the accessors return, changed by a caller
\* Portfolio.get_open_positions_by_item: the tracked list itself, or a new
\* empty list for an item without a key
get_open_positions_by_item(item) ==
    IF item \in DOMAIN open_positions THEN open_positions[item] ELSE <<>>

\* what a caller does to a list it was handed
ListMutations == {"append", "remove", "clear"}

ListMutable(m, list) == m = "append" \/ list # <<>>

ListMutate(m, list, position) ==
    IF m = "append" THEN Append(list, position)
    ELSE IF m = "remove" THEN Tail(list)
    ELSE <<>>

\* a caller changes the list get_open_positions_by_item(item) returned; the
\* list is the portfolio's own when the item has a key
MutateOpenPositions ==
    /\ \E item \in AllowedItems, m \in ListMutations :
          /\ ListMutable(m, get_open_positions_by_item(item))
          /\ m = "append" => PositionCount < MaxPositions
          /\ open_positions' =
                 IF item \in DOMAIN open_positions
                 THEN [open_positions EXCEPT ![item] =
                          ListMutate(m, @, PortfolioPosition(Transaction(item, 1, 1, 1, 0)))]
                 ELSE open_positions
          /\ last' = Call("get_open_positions_by_item", "none", m)
    /\ UNCHANGED <<cash, closed_positions, flags, dataset, loopvars>>

\* a caller changes the list the closed_positions property returned, which
\* is the portfolio's own
MutateClosedPositions ==
    /\ \E m \in ListMutations :
          /\ ListMutable(m, closed_positions)
          /\ m = "append" => PositionCount < MaxPositions
          /\ closed_positions' =
                 ListMutate(m, closed_positions,
                            PortfolioPosition(Transaction("A", 1, 1, 1, 0)))
          /\ last' = Call("closed_positions", "none", m)
    /\ UNCHANGED <<cash, open_positions, flags, dataset, loopvars>>

\* a returned list has been changed
ListChanged == last.op \in {"get_open_positions_by_item", "closed_positions"}

\* ledger calls, then one change of a returned list
NextAccessors ==
    \/ ~ListChanged /\ LedgerOpen
    \/ ~ListChanged /\ LedgerClose
    \/ ~ListChanged /\ MutateOpenPositions
    \/ ~ListChanged /\ MutateClosedPositions

SpecAccessors == InitLedger /\ [][NextAccessors]_vars

\* ------------------------------------- PortfolioPosition.close, called
\* the positions close is called on: every open position, and closed ones
PositionInputs ==
    {PortfolioPosition(t) : t \in Transactions}
        \cup {PositionClose(PortfolioPosition(Transaction(i, 1, 1, 1, 0)),
                            Transaction(i, -1, 1, 2, 0)) : i \in AllowedItems}

\* what the last call of PortfolioPosition.close was given and returned
CloseCall(position, c, result) ==
    [position |-> position, close_transaction |-> c, result |-> result]

\* PortfolioPosition.close: a new closed position, or ValueError
PositionCloseCall ==
    /\ pc = "idle"
    /\ \E position \in PositionInputs, c \in Transactions :
           LET err == PositionCloseError(position, c)
           IN last' = IF err = "ok"
                      THEN Call("close", "none",
                                CloseCall(position, c, PositionClose(position, c)))
                      ELSE Call("close", err, CloseCall(position, c, position))
    /\ UNCHANGED <<ledger, flags, dataset, loopvars>>

InitPosition == PortfolioInit({FALSE}, {FALSE}) /\ LoopIdle

NextPosition == PositionCloseCall

SpecPosition == InitPosition /\ [][NextPosition]_vars

\* --------------------------------------- PortfolioMetrics, the statistics
\* floats are kept as exact fractions num/den with den > 0
RECURSIVE GCD(_, _)
GCD(a, b) == IF b = 0 THEN a ELSE GCD(b, a % b)

Abs(n) == IF n < 0 THEN -n ELSE n

Sign(n) == IF n < 0 THEN -1 ELSE IF n = 0 THEN 0 ELSE 1

\* the float n/d, d # 0
Float(n, d) ==
    LET g == GCD(Abs(n), Abs(d))
    IN [kind |-> "float", num |-> Sign(d) * (n \div g), den |-> Abs(d) \div g]

\* the results that are not finite floats: None, nan, inf, -inf, and the
\* complex or nan power of a negative base
Special(kind) == [kind |-> kind, num |-> 0, den |-> 1]

FloatLess(a, b) == a.num * b.den < b.num * a.den

\* PortfolioMetrics._get_values_series: the values by ascending date, the
\* last entry of a date standing for that date; None under two entries
get_values_series(h) ==
    IF Len(h) < 2 THEN Special("None")
    ELSE LET ds == Ascending({h[k].date : k \in 1..Len(h)})
             at(d) == CHOOSE k \in 1..Len(h) :
                         /\ h[k].date = d
                         /\ \A j \in 1..Len(h) : h[j].date = d => j <= k
         IN [kind |-> "series",
             values |-> [i \in 1..Len(ds) |-> h[at(ds[i])].value]]

\* Series.cummax at position k
CumulativeMax(values, k) ==
    CHOOSE m \in {values[j] : j \in 1..k} : \A j \in 1..k : values[j] <= m

\* PortfolioMetrics.calculate_max_drawdown: the least of
\* (value - peak) / peak over the positions whose peak is not 0 (the others
\* are nan and min skips them); 0.0 when every position is nan
calculate_max_drawdown(h) ==
    LET series == get_values_series(h)
    IN IF series.kind = "None" \/ Len(series.values) < 2 THEN Special("None")
       ELSE LET values == series.values
                dd == {Float(values[k] - CumulativeMax(values, k),
                             CumulativeMax(values, k)) :
                          k \in {j \in 1..Len(values) :
                                    CumulativeMax(values, j) # 0}}
            IN IF dd = {} THEN Float(0, 1)
               ELSE CHOOSE m \in dd : \A x \in dd : ~FloatLess(x, m)

\* Series.pct_change at position k >= 2: value / previous - 1
PctChange(values, k) ==
    IF values[k - 1] # 0 THEN Float(values[k] - values[k - 1], values[k - 1])
    ELSE IF values[k] > 0 THEN Special("inf")
    ELSE IF values[k] < 0 THEN Special("-inf")
    ELSE Special("nan")

\* PortfolioMetrics.calculate_returns: pct_change().dropna(), the nan of
\* the first position and every 0/0 dropped
calculate_returns(h) ==
    LET series == get_values_series(h)
    IN IF series.kind = "None" \/ Len(series.values) < 2 THEN Special("None")
       ELSE LET all == [k \in 1..(Len(series.values) - 1) |->
                           PctChange(series.values, k + 1)]
                NotNan(r) == r.kind # "nan"
            IN [kind |-> "series", values |-> SelectSeq(all, NotNan)]

\* the frequencies calculate_returns is asked for: daily, and another one
Frequencies == {"D", "W"}

\* what calculate_returns(frequency) returns: the cached series when there
\* is one and daily returns are asked for, else the returns of h
cached_returns(h, cache, frequency) ==
    IF cache.kind # "None" /\ frequency = "D" THEN cache
    ELSE calculate_returns(h)

\* _returns_series after calculate_returns(frequency): daily returns that
\* were computed are cached
cache_returns(h, cache, frequency) ==
    IF cache.kind # "None" /\ frequency = "D" THEN cache
    ELSE IF calculate_returns(h).kind = "None" THEN cache
    ELSE IF frequency = "D" THEN calculate_returns(h)
    ELSE cache

\* PortfolioMetrics.calculate_annualized_volatility, up to its sign: None,
\* 0.0 when all returns are equal, nan when a return is infinite
calculate_annualized_volatility(h) ==
    LET returns == calculate_returns(h)
    IN IF returns.kind = "None" \/ returns.values = <<>> THEN Special("None")
       ELSE IF \E k \in 1..Len(returns.values) : returns.values[k].kind # "float"
            THEN Special("nan")
       ELSE IF \A k \in 1..Len(returns.values) : returns.values[k] = returns.values[1]
            THEN Float(0, 1)
       ELSE Special("positive")

\* PortfolioMetrics.calculate_annualized_return, up to the sign of the
\* growth: (end / start) ** (365.25 / days) - 1 is 0.0, above or below it
\* as end is equal to, above or below start; a negative base has no real
\* power
calculate_annualized_return(h) ==
    IF Len(h) < 2 THEN Special("None")
    ELSE IF h[1].value <= 0 THEN Special("None")
    ELSE IF h[Len(h)].date - h[1].date <= 0 THEN Float(0, 1)
    ELSE IF h[Len(h)].value < 0 THEN Special("undefined")
    ELSE Float(Sign(h[Len(h)].value - h[1].value), 1)

\* the annual risk-free rates passed, in percent
RiskFreeRates == {0, 2}

\* CAGR against the risk-free rate: one step of growth between the integer
\* values modelled is at least 25% in at most MaxDay days, far above any
\* rate modelled, and isclose separates no two of the values compared
CompareToRate(cagr, rate) ==
    IF rate = 0 THEN cagr.num
    ELSE IF cagr.num > 0 THEN 1 ELSE -1

\* PortfolioMetrics.calculate_sharpe_ratio, a finite ratio up to its sign
calculate_sharpe_ratio(h, rate) ==
    LET returns == calculate_returns(h)
        annual_return == calculate_annualized_return(h)
        annual_volatility == calculate_annualized_volatility(h)
    IN IF returns.kind = "None" \/ returns.values = <<>> THEN Special("None")
       ELSE IF annual_return.kind = "None" \/ annual_volatility.kind = "None"
            THEN Special("None")
       ELSE IF annual_return.kind = "undefined" THEN Special("undefined")
       ELSE IF annual_volatility = Float(0, 1)
            THEN IF CompareToRate(annual_return, rate) = 0 THEN Float(0, 1)
                 ELSE IF CompareToRate(annual_return, rate) > 0 THEN Special("inf")
                 ELSE Special("-inf")
       ELSE IF annual_volatility.kind = "nan" THEN Special("nan")
       ELSE [kind |-> "ratio", num |-> CompareToRate(annual_return, rate), den |-> 1]

\* ------------------------------------------ PortfolioMetrics.update, called
\* the portfolio values update is called with
MetricValues == {-1, 0, 1, 2, 3, 4}

\* the branch update takes: lines 57-59, 60-63, 64-70
UpdateBranch(h, d) ==
    IF h = <<>> \/ d > h[Len(h)].date THEN "append"
    ELSE IF d = h[Len(h)].date THEN "overwrite"
    ELSE "raise"

\* what update was called with, and the branch it took
UpdateCall(d, v, branch) == [date |-> d, value |-> v, branch |-> branch]

\* PortfolioMetrics.__init__ for a portfolio started on any day
InitMetrics ==
    /\ PortfolioInit({FALSE}, {FALSE})
    /\ dates = <<>>
    /\ ticker = {}
    /\ options = {}
    /\ other = {}
    /\ malformed = {}
    /\ end_date = NoEndDate
    /\ idx = 0
    /\ pc = "metrics"
    /\ masked_data = NoMaskedData
    /\ next_day_data = <<>>
    /\ calls = 0
    /\ \E start \in Days : value_history = MetricsInit(start)
    /\ returns_series = NoReturnsSeries
    /\ valued = <<>>
    /\ executed = <<>>
    /\ skipped = {}
    /\ recorded = <<>>
    /\ execRaised = 0
    /\ staleRaised = "no"

\* PortfolioMetrics.update(date, portfolio_value)
MetricsUpdate ==
    /\ pc = "metrics"
    /\ \E d \in Days, v \in MetricValues :
           IF UpdateStale(value_history, d)
           THEN /\ last' = Call("update", "out of order",
                                 UpdateCall(d, v, UpdateBranch(value_history, d)))
                /\ UNCHANGED <<value_history, returns_series>>
           ELSE /\ value_history' = update(value_history, d, v)
                /\ returns_series' = update_returns_series(value_history, d,
                                         returns_series)
                /\ last' = Call("update", "none",
                                 UpdateCall(d, v, UpdateBranch(value_history, d)))
    /\ UNCHANGED <<ledger, flags, dataset, dates, idx, pc, masked_data,
                   next_day_data, calls, observed>>

\* PortfolioMetrics.calculate_max_drawdown()
MetricsMaxDrawdown ==
    /\ pc = "metrics"
    /\ last' = Call("calculate_max_drawdown", "none",
                     calculate_max_drawdown(value_history))
    /\ UNCHANGED <<ledger, flags, dataset, dates, idx, pc, masked_data,
                   next_day_data, calls, value_history, returns_series, valued, executed,
                   skipped, recorded, execRaised, staleRaised>>

\* PortfolioMetrics.calculate_sharpe_ratio(risk_free_rate)
MetricsSharpe ==
    /\ pc = "metrics"
    /\ \E rate \in RiskFreeRates :
           last' = Call("calculate_sharpe_ratio", "none",
                        [rate |-> rate,
                         sharpe |-> calculate_sharpe_ratio(value_history, rate)])
    /\ returns_series' = cache_returns(value_history, returns_series, "D")
    /\ UNCHANGED <<ledger, flags, dataset, dates, idx, pc, masked_data,
                   next_day_data, calls, value_history, valued, executed,
                   skipped, recorded, execRaised, staleRaised>>

NextMetrics == MetricsUpdate \/ MetricsMaxDrawdown \/ MetricsSharpe

SpecMetrics == InitMetrics /\ [][NextMetrics]_vars

\* PortfolioMetrics.calculate_returns(frequency)
MetricsReturns ==
    /\ pc = "metrics"
    /\ \E frequency \in Frequencies :
           /\ last' = Call("calculate_returns", "none",
                          [frequency |-> frequency,
                           cached |-> (returns_series.kind # "None"
                                          /\ frequency = "D"),
                           returns |-> cached_returns(value_history,
                                           returns_series, frequency)])
           /\ returns_series' = cache_returns(value_history, returns_series,
                                    frequency)
    /\ UNCHANGED <<ledger, flags, dataset, dates, idx, pc, masked_data,
                   next_day_data, calls, value_history, valued, executed,
                   skipped, recorded, execRaised, staleRaised>>

NextReturns == MetricsUpdate \/ MetricsReturns

SpecReturns == InitMetrics /\ [][NextReturns]_vars

\* ------------------------------------------------- run_backtest, called
\* the days the loaded data may cover: load_data starts lookback_days
\* before start_date
DataDays == 0..MaxDay

RunRows ==
    {Row(item, Timestamp(day, tod)) :
        item \in AllowedItems, day \in DataDays, tod \in 0..(TicksPerDay - 1)}

\* the loaded ticker frames: up to four rows
RunDatasets == {{}} \cup {{a, b, c, d} : a, b, c, d \in RunRows}

\* extract_trading_dates: the calendar dates of the ticker rows, sorted
extract_trading_dates == Ascending({DateOf(r.ts) : r \in ticker})

\* datetime.now().date(), used when there is no end date and no data
Today == MaxDay

\* the end date of the simulation range: config.end_date, or the latest
\* date of the data
RangeEnd ==
    IF end_date # NoEndDate THEN end_date
    ELSE LET all_dates == {DateOf(r.ts) : r \in ticker}
         IN IF all_dates = {} THEN Today
            ELSE CHOOSE d \in all_dates : \A e \in all_dates : e <= d

\* faulty variant: the end date itself is left out
InRangeExclusive(d) == start_date <= d /\ d < RangeEnd

\* faulty variant: dates before start_date are kept
InRangeNoStart(d) == d <= RangeEnd

\* start_date <= d <= end_date
InRange(d) == start_date <= d /\ d <= RangeEnd

\* config.end_date is None or a date not before start_date
InitRun ==
    /\ PortfolioInit({FALSE}, {TRUE})
    /\ dates = <<>>
    /\ ticker \in RunDatasets
    /\ options = {}
    /\ other = {}
    /\ malformed = {}
    /\ end_date \in Days \cup {NoEndDate}
    /\ idx = 0
    /\ pc = "run"
    /\ masked_data = NoMaskedData
    /\ next_day_data = <<>>
    /\ calls = 0
    /\ value_history = MetricsInit(start_date)
    /\ returns_series = NoReturnsSeries
    /\ valued = <<>>
    /\ executed = <<>>
    /\ skipped = {}
    /\ recorded = <<>>
    /\ execRaised = 0
    /\ staleRaised = "no"

\* run_backtest up to its call of backtest_loop: the trading dates of the
\* range, and the early return when there are none
RunBacktest ==
    /\ pc = "run"
    /\ LET filtered_trading_dates ==
               Ascending({d \in SeqSet(extract_trading_dates) : InRange(d)})
       IN /\ dates' = filtered_trading_dates
          /\ IF filtered_trading_dates = <<>>
             THEN pc' = "returned" /\ idx' = idx
             ELSE pc' = "loop" /\ idx' = 1
    /\ UNCHANGED <<ledger, flags, last, dataset, masked_data, next_day_data,
                   calls, value_history, returns_series, observed>>

NextRun == RunBacktest

SpecRun == InitRun /\ [][NextRun]_vars

\* ------------------------------- run_backtest with its backtest_loop
\* daily bars from the day before start_date on, at most four of them
RunLoopRows == {Row(item, Midnight(day)) : item \in AllowedItems, day \in DataDays}

RunLoopDatasets == {{}} \cup {{a, b, c, d} : a, b, c, d \in RunLoopRows}

InitRunLoop ==
    /\ PortfolioInit({FALSE}, {TRUE})
    /\ dates = <<>>
    /\ ticker \in RunLoopDatasets
    /\ options = {}
    /\ other = {}
    /\ malformed = {}
    /\ end_date \in Days \cup {NoEndDate}
    /\ idx = 0
    /\ pc = "run"
    /\ masked_data = NoMaskedData
    /\ next_day_data = <<>>
    /\ calls = 0
    /\ value_history = MetricsInit(start_date)
    /\ returns_series = NoReturnsSeries
    /\ valued = <<>>
    /\ executed = <<>>
    /\ skipped = {}
    /\ recorded = <<>>
    /\ execRaised = 0
    /\ staleRaised = "no"

\* every trading date has a bar, so the loop never skips an execution
NextRunLoop ==
    \/ RunBacktest
    \/ Valuation
    \/ Dispatch
    \/ LastDate
    \/ Return
    \/ StrategyOpen
    \/ StrategyClose
    \/ StrategyReturn
    \/ StrategyRaise

SpecRunLoop == InitRunLoop /\ [][NextRunLoop]_vars

\* ------------------------------------------ equal_allocation, called
MaxAllocationCash == 6

MaxAllocationPrice == 3

\* cash on hand when the allocation is made: overdrawn, spent or positive
AllocationCashes == (-1)..MaxAllocationCash

\* next-day open prices, a non-positive one included
AllocationPrices == 0..MaxAllocationPrice

\* next_day_data: the next day's bar of some of the items
AllocationData ==
    UNION {[S -> {OHLCData(1, p) : p \in AllocationPrices}] :
               S \in SUBSET AllowedItems}

\* buy_signals, in the order of its keys
SignalLists == UNION {Orderings(S) : S \in SUBSET AllowedItems}

\* the buy items that have a positive next-day open price
valid_buy_items(buy_signals, data) ==
    SelectSeq(buy_signals,
              LAMBDA item : item \in DOMAIN data /\ data[item].open > 0)

\* faulty variant: the whole cash for every item
cash_per_item_undivided(available_cash, num_valid_items) ==
    Float(available_cash, 1)

\* cash_per_item = available_cash / num_valid_items
cash_per_item(available_cash, num_valid_items) ==
    Float(available_cash, num_valid_items)

\* int(cash_per_item // price)
AllocationQuantity(per_item, price) == per_item.num \div (per_item.den * price)

\* the loop over valid_buy_items: an item is kept when its quantity is
\* positive and the running total with its cost stays within the cash
RECURSIVE temp_allocations(_, _, _, _, _)
temp_allocations(items, data, per_item, available_cash, total_cost_estimate) ==
    IF items = <<>>
    THEN <<>>
    ELSE LET item == Head(items)
             price == data[item].open
             quantity == AllocationQuantity(per_item, price)
             cost_for_item == quantity * price
             kept == /\ quantity > 0
                     /\ total_cost_estimate + cost_for_item <= available_cash
             rest == temp_allocations(Tail(items), data, per_item,
                         available_cash,
                         IF kept THEN total_cost_estimate + cost_for_item
                                 ELSE total_cost_estimate)
         IN IF kept THEN (item :> quantity) @@ rest ELSE rest

\* equal_allocation / RsiStrategy.allocate_capital: item -> whole quantity
equal_allocation(available_cash, buy_signals, data) ==
    LET valid == valid_buy_items(buy_signals, data)
    IN IF buy_signals = <<>> \/ available_cash <= 0 \/ valid = <<>>
       THEN <<>>
       ELSE temp_allocations(valid, data,
                cash_per_item(available_cash, Len(valid)), available_cash, 0)

InitAllocation ==
    /\ LoopIdle
    /\ initial_cash \in InitialCashes
    /\ cash \in AllocationCashes
    /\ allow_margin = TRUE
    /\ allow_short = FALSE
    /\ open_positions = <<>>
    /\ closed_positions = <<>>
    /\ last = NoCall

\* the strategy receives the next day's bars
ReceiveNextDayData ==
    /\ pc = "idle"
    /\ next_day_data = <<>>
    /\ last = NoCall
    /\ next_day_data' \in AllocationData \ {<<>>}
    /\ UNCHANGED <<ledger, flags, last, dataset, dates, idx, pc, masked_data,
                   calls, value_history, returns_series, valued, executed, skipped, recorded,
                   execRaised, staleRaised>>

\* allocate_capital(buy_signals, next_day_data), called
AllocateCapital ==
    /\ pc = "idle"
    /\ \E buy_signals \in SignalLists :
          last' = Call("allocate_capital", "none",
                       [buy_signals |-> buy_signals,
                        allocated_quantities |->
                            equal_allocation(cash, buy_signals, next_day_data)])
    /\ UNCHANGED <<ledger, flags, dataset, dates, idx, pc, masked_data,
                   next_day_data, calls, value_history, returns_series, valued, executed,
                   skipped, recorded, execRaised, staleRaised>>

NextAllocation == ReceiveNextDayData \/ AllocateCapital

SpecAllocation == InitAllocation /\ [][NextAllocation]_vars

\* ================================================================ claims
HasBar(item, day) == \E r \in ticker : r.item = item /\ DateOf(r.ts) = day

NextDayBarsExist(i) == \E item \in AllowedItems : HasBar(item, dates[i + 1])

\* the open positions marked at the open prices of a day, plus cash
RECURSIVE MarkedAt(_, _)
MarkedAt(s, day) ==
    IF s = <<>> THEN 0
    ELSE OpenPrice(Head(s).open_transaction.tradeable_item, day)
            * Head(s).open_transaction.quantity
         + MarkedAt(Tail(s), day)

\* C1 (SpecLedger): in every ledger state, cash is initial_cash minus
\* price*quantity + transaction_cost of every position ever opened (the open
\* and the closed ones) plus the sale proceeds of every closed position,
\* whatever calls were rejected in between.
C1_CashConservation ==
    cash = initial_cash
             - SumSeq(cost_basis, AllOpen \o closed_positions)
             + SumSeq(sale_proceeds, closed_positions)

C1_Witness ==
    /\ Len(closed_positions) >= 1
    /\ Len(AllOpen) >= 1
    /\ last.op = "close_position" /\ last.err # "none"
    /\ cash # initial_cash

\* C2 (Spec): while strategy.execute runs for dates[idx], the bars it was
\* handed are the dataset's bars of dates[idx+1], the masked view is the one
\* of cutoff dates[idx], and every bar is dated after that cutoff and after
\* every row of the view.
C2_NextDayBars ==
    pc = "exec" =>
        /\ idx < Len(dates)
        /\ DOMAIN next_day_data = {item \in AllowedItems : HasBar(item, dates[idx + 1])}
        /\ \A item \in DOMAIN next_day_data :
               /\ next_day_data[item].date = dates[idx + 1]
               /\ next_day_data[item].date > dates[idx]
               /\ \A r \in masked_data.ticker : DateOf(r.ts) < next_day_data[item].date
        /\ masked_data.ticker = {r \in ticker : DateOf(r.ts) <= dates[idx]}

C2_Witness ==
    /\ pc = "exec"
    /\ idx = 2
    /\ DOMAIN next_day_data = AllowedItems
    /\ masked_data.ticker # {}
    /\ masked_data.ticker # ticker

\* C3 (SpecMask): the view create_masked_data returns for cutoff date d
\* holds only rows of the dataset, no ticker row stamped after d and no
\* option row whose last_updated is after d.
C3_NoLookahead ==
    pc = "masked" =>
        /\ masked_data.ticker \subseteq ticker
        /\ masked_data.options \subseteq options
        /\ \A r \in masked_data.ticker : DateOf(r.ts) <= dates[idx]
        /\ \A r \in masked_data.options : DateOf(r.last_updated) <= dates[idx]

C3_Witness ==
    /\ pc = "masked"
    /\ \E r \in ticker : DateOf(r.ts) > dates[idx]
    /\ \E r \in options : DateOf(r.last_updated) > dates[idx]
    /\ masked_data.ticker # {}
    /\ masked_data.options # {}

\* C4 (Spec): the dates are valued one at a time in list order; an index is
\* executed only after it was valued and before any later index is valued;
\* and the value recorded for dates[idx] is the value of the ledger as it is
\* before strategy.execute runs for that date.
C4_Sequential ==
    /\ valued = [k \in 1..Len(valued) |-> k]
    /\ \A k \in 1..Len(executed) : executed[k] \in SeqSet(valued)
    /\ pc = "exec" =>
           /\ executed[Len(executed)] = idx
           /\ valued[Len(valued)] = idx
    /\ pc = "mask" =>
           /\ valued[Len(valued)] = idx
           /\ \A k \in 1..Len(executed) : executed[k] < idx
           /\ idx \in DOMAIN recorded =>
                  recorded[idx] = cash + MarkedAt(AllOpen, dates[idx])
    /\ pc = "loop" => Len(valued) = idx - 1

C4_Witness ==
    /\ pc = "mask"
    /\ idx = 3
    /\ SeqSet(executed) = {1, 2}
    /\ HeldItems # {}
    /\ closed_positions # <<>>
    /\ 3 \in DOMAIN recorded
    /\ recorded[3] # recorded[2]
    /\ recorded[3] # cash

\* C5 (Spec): strategy.execute is never called for the last date, at most
\* once per date, and a loop that returns over n dates whose next-day bars
\* all exist has called it n-1 times (0 times for no date and for one date).
C5_ExecuteCount ==
    /\ \A k \in 1..Len(executed) : executed[k] < Len(dates)
    /\ \A j, k \in 1..Len(executed) : j # k => executed[j] # executed[k]
    /\ (pc = "done" /\ \A i \in 1..(Len(dates) - 1) : NextDayBarsExist(i)) =>
           Len(executed) = IF Len(dates) = 0 THEN 0 ELSE Len(dates) - 1

C5_Witness ==
    /\ pc = "done"
    /\ Len(dates) = 3
    /\ Len(executed) = 2

\* C6 (Spec): right after the valuation of dates[idx], a value is recorded
\* for it exactly when no position is open (the value is cash, bars or not)
\* or every held item has a bar for that date (the value is cash plus the
\* positions at the bars' open prices); it is then the last entry of the
\* history; nothing else is recorded, and the loop goes on to masking and
\* execution either way.
C6_ValuationRecording ==
    /\ pc = "mask" =>
           /\ idx \in DOMAIN recorded <=>
                  (HeldItems = {} \/ \A item \in HeldItems : HasBar(item, dates[idx]))
           /\ idx \in DOMAIN recorded =>
                  /\ recorded[idx] = IF HeldItems = {} THEN cash
                                     ELSE cash + MarkedAt(AllOpen, dates[idx])
                  /\ value_history[Len(value_history)]
                         = Entry(dates[idx], recorded[idx])
    /\ \A i \in SeqSet(valued) :
           i < idx => (i \in SeqSet(executed) \/ i \in skipped \/ i = Len(dates))
    /\ pc = "raised" => execRaised # 0

C6_Witness ==
    /\ pc = "mask"
    /\ idx = 3
    /\ 1 \in DOMAIN recorded
    /\ ~(\E item \in AllowedItems : HasBar(item, dates[1]))
    /\ 2 \in DOMAIN recorded
    /\ recorded[2] # cash
    /\ 3 \notin DOMAIN recorded
    /\ \E item \in HeldItems : HasBar(item, dates[3])
    /\ \E item \in HeldItems : ~HasBar(item, dates[3])

\* C7 (Spec): missing next-day bars skip strategy.execute for that date and
\* nothing else: the date was valued by the usual rule, the loop moved to
\* the next date, and a loop that returns has valued every date and
\* executed exactly the dates whose next-day bars exist.
C7_SkipOnlyExecution ==
    /\ \A i \in skipped :
           /\ i \in SeqSet(valued)
           /\ i \notin SeqSet(executed)
           /\ ~NextDayBarsExist(i)
           /\ idx > i
    /\ (pc = "loop" /\ (idx - 1) \in skipped) =>
           ((idx - 1) \in DOMAIN recorded <=>
               (HeldItems = {} \/ \A item \in HeldItems : HasBar(item, dates[idx - 1])))
    /\ pc = "done" =>
           /\ SeqSet(valued) = 1..Len(dates)
           /\ SeqSet(executed) = {i \in 1..(Len(dates) - 1) : NextDayBarsExist(i)}
           /\ skipped = {i \in 1..(Len(dates) - 1) : ~NextDayBarsExist(i)}
    /\ pc = "raised" => idx \notin skipped

C7_Witness ==
    /\ pc = "done"
    /\ Len(dates) = 3
    /\ skipped = {1}
    /\ executed = <<2>>
    /\ DOMAIN recorded = {1, 2, 3}

\* C8 as claimed (Spec): an error of strategy.execute never ends the loop.
C8_ExecuteErrorCaught == execRaised # 0 => pc # "raised"

\* C8 amended (Spec): an error of strategy.execute leaves backtest_loop: the
\* loop stops at that date, no later date is valued or executed, and what
\* the strategy did to the ledger before the error stays.
C8_ExecuteErrorPropagates ==
    execRaised # 0 =>
        /\ pc = "raised"
        /\ idx = execRaised
        /\ valued[Len(valued)] = execRaised
        /\ executed[Len(executed)] = execRaised

C8_Witness ==
    /\ execRaised = 1
    /\ Len(dates) = 3
    /\ pc = "raised"
    /\ cash # initial_cash

\* C9 as claimed (SpecAnyOrder): whenever PortfolioMetrics.update raises
\* its out-of-order error, for a cash-only value or for a valuation of held
\* positions, backtest_loop is left with the error.
C9_StaleUpdateIsFatal == staleRaised # "no" => pc = "raised"

\* C10 (SpecLedger): can_trade(t) is false for an item outside the allowed
\* set; else true when an open position of the item has quantity
\* -t.quantity; else allow_short for a negative quantity; else true when
\* cash >= price*quantity + cost and allow_margin when cash is smaller; and
\* a call of it leaves the ledger as it was.
CanTradeClaimed(t) ==
    /\ t.tradeable_item \in AllowedItems
    /\ \/ \E p \in SeqSet(AllOpen) :
              /\ p.open_transaction.tradeable_item = t.tradeable_item
              /\ p.open_transaction.quantity = -t.quantity
       \/ t.quantity < 0 /\ allow_short
       \/ t.quantity > 0 /\ cash >= t.price * t.quantity + t.transaction_cost
       \/ t.quantity > 0 /\ cash < t.price * t.quantity + t.transaction_cost
              /\ allow_margin

C10_CanTrade ==
    /\ [](\A t \in Transactions : can_trade(t) <=> CanTradeClaimed(t))
    /\ [][last'.op = "can_trade" => UNCHANGED ledger]_vars

C10_Witness ==
    /\ last.op = "can_trade"
    /\ last.ret
    /\ ~allow_short
    /\ ~allow_margin
    /\ cash = 0
    /\ Len(AllOpen) >= 1

\* the list of an item in an open-position map, empty without the key
ListOf(m, item) == IF item \in DOMAIN m THEN m[item] ELSE <<>>

\* the errors Portfolio.close_position and PortfolioPosition.close raise
\* before they look the position up
TradingRuleErrors == {"already closed", "item mismatch", "date", "quantity"}

\* a step that is an accepted open_position, an accepted close_position
OpenAccepted == last'.op = "open_position" /\ last'.err = "none"

CloseAccepted == last'.op = "close_position" /\ last'.err = "none"

\* C11 (SpecLedger): whenever can_trade(t) is false, open_position(t) raises
\* the cannot-be-executed error; a rejected open_position leaves cash, the
\* open-position map and closed_positions as they were; and no accepted
\* open_position adds a position whose transaction could not be traded.
C11_OpenRejected ==
    /\ [](\A t \in Transactions :
              ~can_trade(t) => OpenError(t) = "cannot be executed")
    /\ [][(last'.op = "open_position" /\ last'.err # "none") =>
              /\ last'.err = "cannot be executed"
              /\ UNCHANGED ledger]_vars
    /\ [][OpenAccepted =>
              \A t \in Transactions :
                  ~can_trade(t) =>
                      ListOf(open_positions', t.tradeable_item)
                          # Append(ListOf(open_positions, t.tradeable_item),
                                   PortfolioPosition(t))]_vars

C11_Witness ==
    /\ last.op = "open_position"
    /\ last.err = "cannot be executed"
    /\ Len(AllOpen) >= 1
    /\ cash # initial_cash

\* C12 (SpecLedger): whenever can_trade(t) is true open_position(t) is
\* accepted, and an accepted open_position is that of a tradeable t: the list
\* of t's item is the old list with one new open position of transaction t
\* at its end, every other list is as before, cash is lower by
\* price*quantity + transaction_cost (higher by price*|quantity| - cost for a
\* negative quantity), and closed_positions is unchanged.
C12_OpenEffect ==
    /\ [](\A t \in Transactions : can_trade(t) => OpenError(t) = "none")
    /\ [][OpenAccepted =>
              \E t \in Transactions :
                  /\ can_trade(t)
                  /\ ListOf(open_positions', t.tradeable_item)
                         = Append(ListOf(open_positions, t.tradeable_item),
                                  [open_transaction |-> t,
                                   close_transaction |-> NoTransaction])
                  /\ DOMAIN open_positions'
                         = DOMAIN open_positions \cup {t.tradeable_item}
                  /\ \A item \in DOMAIN open_positions \ {t.tradeable_item} :
                         open_positions'[item] = open_positions[item]
                  /\ cash' = cash - (t.price * t.quantity + t.transaction_cost)
                  /\ t.quantity < 0 =>
                         cash' = cash + t.price * (-t.quantity)
                                     - t.transaction_cost
                  /\ closed_positions' = closed_positions]_vars

C12_Witness ==
    /\ last.op = "open_position"
    /\ last.err = "none"
    /\ closed_positions = <<>>
    /\ cash > initial_cash
    /\ \E item \in DOMAIN open_positions : Len(open_positions[item]) = 2

\* C13 (SpecLedger): an accepted close_position(p, c) takes one occurrence
\* of the tracked position p out of the list of its item and deletes the key
\* when the list is empty, leaves every other list alone, appends to
\* closed_positions the one position that pairs p's open transaction with
\* c's price, date and cost, and raises cash by c.price * open quantity -
\* c.transaction_cost, the sale proceeds of that closed position.
C13_CloseEffect ==
    [][CloseAccepted =>
          \E i \in 1..Len(AllOpen), c \in Transactions :
              LET p == AllOpen[i]
                  item == p.open_transaction.tradeable_item
                  list == open_positions[item]
                  closed == closed_positions'[Len(closed_positions')]
              IN \E j \in 1..Len(list) :
                    LET rest == SubSeq(list, 1, j - 1)
                                    \o SubSeq(list, j + 1, Len(list))
                    IN /\ list[j] = p
                       /\ ListOf(open_positions', item) = rest
                       /\ item \in DOMAIN open_positions' <=> rest # <<>>
                       /\ DOMAIN open_positions' \ {item}
                              = DOMAIN open_positions \ {item}
                       /\ \A another \in DOMAIN open_positions \ {item} :
                              open_positions'[another] = open_positions[another]
                       /\ closed_positions' = Append(closed_positions,
                              [open_transaction |-> p.open_transaction,
                               close_transaction |->
                                   Transaction(item, -p.open_transaction.quantity,
                                               c.price, c.date,
                                               c.transaction_cost)])
                       /\ cash' = cash + c.price * p.open_transaction.quantity
                                      - c.transaction_cost
                       /\ cash' = cash + sale_proceeds(closed)]_vars

C13_Witness ==
    /\ last.op = "close_position"
    /\ last.err = "none"
    /\ closed_positions[Len(closed_positions)].close_transaction.transaction_cost > 0
    /\ \E k \in 1..Len(AllOpen) :
           AllOpen[k].open_transaction
               = closed_positions[Len(closed_positions)].open_transaction

\* C14 (SpecLedger): for every position a caller holds and every close
\* transaction whose quantity is not the negation of the open quantity, both
\* Portfolio.close_position and PortfolioPosition.close raise a trading-rule
\* error; and every closed position was closed at the negated open quantity.
C14_NoPartialClose ==
    /\ \A position \in CallerPositions, c \in Transactions :
           c.quantity # -position.open_transaction.quantity =>
               /\ ClosePositionError(position, c) \in TradingRuleErrors
               /\ PositionCloseError(position, c) \in TradingRuleErrors
    /\ \A k \in 1..Len(closed_positions) :
           closed_positions[k].close_transaction.quantity
               = -closed_positions[k].open_transaction.quantity

C14_Witness ==
    /\ last.op = "close_position"
    /\ last.err = "quantity"
    /\ Len(AllOpen) = 2

\* C15 (SpecLedger): Portfolio.close_position raises a trading-rule error
\* for every close transaction dated on or before the day of the position's
\* open transaction, the same day included; every closed position was
\* closed after the day it was opened.
C15_CloseChronology ==
    /\ \A position \in CallerPositions, c \in Transactions :
           c.date <= position.open_transaction.date =>
               ClosePositionError(position, c) \in TradingRuleErrors
    /\ \A k \in 1..Len(closed_positions) :
           closed_positions[k].close_transaction.date
               > closed_positions[k].open_transaction.date

\* the rejected close is dated day 1, the day every position was opened
C15_Witness ==
    /\ last.op = "close_position"
    /\ last.err = "date"
    /\ AllOpen # <<>>
    /\ \A position \in CallerPositions : position.open_transaction.date = 1
    /\ \A c \in Transactions : c.date >= 1

\* C16 as claimed (SpecPosition): PortfolioPosition.close raises for every
\* close transaction dated on or before the day of the open transaction.
C16_CloseOnlyAfterOpen ==
    (/\ last.op = "close"
     /\ last.ret.close_transaction.date
            <= last.ret.position.open_transaction.date)
        => last.err # "none"

\* C17 as claimed (SpecLedger): a close_position that passes the checks of
\* the position and the close transaction and does not find the position
\* among the tracked ones ends with the position-not-found error.
C17_UntrackedNotFound ==
    (/\ last.op = "close_position"
     /\ last.err \notin TradingRuleErrors \cup {"none"})
        => last.err = "not found"

\* the close transaction that closes a position the day after it was opened
ClosingTransaction(position) ==
    Transaction(position.open_transaction.tradeable_item,
                -position.open_transaction.quantity, 1,
                position.open_transaction.date + 1, 0)

\* C18 (SpecLedger): an accepted open_position keeps every list of the map
\* as a prefix of the new list, the opposite positions of equal size
\* included, and adds one position to the total; an accepted close_position
\* takes one away and leaves only positions that were there; and every open
\* position, wherever in its list, can be closed by a close_position call.
C18_NoNetting ==
    /\ [](\A k \in 1..Len(AllOpen) :
              ClosePositionError(AllOpen[k], ClosingTransaction(AllOpen[k]))
                  = "ok")
    /\ [][OpenAccepted =>
              /\ \A item \in DOMAIN open_positions :
                     /\ item \in DOMAIN open_positions'
                     /\ Len(open_positions'[item]) >= Len(open_positions[item])
                     /\ SubSeq(open_positions'[item], 1,
                               Len(open_positions[item])) = open_positions[item]
              /\ Len(FlattenOpen(open_positions', DOMAIN open_positions'))
                     = Len(AllOpen) + 1]_vars
    /\ [][CloseAccepted =>
              /\ Len(FlattenOpen(open_positions', DOMAIN open_positions'))
                     = Len(AllOpen) - 1
              /\ \A item \in DOMAIN open_positions' :
                     /\ item \in DOMAIN open_positions
                     /\ SeqSet(open_positions'[item])
                            \subseteq SeqSet(open_positions[item])]_vars

\* a long and a short of equal size in the same item, shorts not allowed
C18_Witness ==
    /\ ~allow_short
    /\ last.op = "open_position"
    /\ last.err = "none"
    /\ "A" \in DOMAIN open_positions
    /\ Len(open_positions["A"]) = 2
    /\ open_positions["A"][1].open_transaction.quantity
           = -open_positions["A"][2].open_transaction.quantity

\* the open positions marked at given prices
RECURSIVE MarkedWith(_, _)
MarkedWith(s, prices) ==
    IF s = <<>> THEN 0
    ELSE prices[Head(s).open_transaction.tradeable_item]
            * Head(s).open_transaction.quantity
         + MarkedWith(Tail(s), prices)

\* C19 (SpecLedger): for every price map, portfolio_value raises the
\* missing-price error exactly when an item with an open position has no
\* price, and otherwise returns cash plus price * open quantity over the
\* open positions, the closed ones counting for nothing; a call of it
\* returns that value or raises, and leaves the ledger as it was.
C19_PortfolioValue ==
    /\ [](\A prices \in PriceMaps :
              /\ PricesMissing(prices) <=>
                     \E item \in DOMAIN open_positions :
                         open_positions[item] # <<>> /\ item \notin DOMAIN prices
              /\ ~PricesMissing(prices) =>
                     portfolio_value(prices) = cash + MarkedWith(AllOpen, prices))
    /\ [][last'.op = "portfolio_value" =>
              /\ UNCHANGED ledger
              /\ IF last'.err = "none"
                 THEN \E prices \in PriceMaps :
                          /\ HeldItems \subseteq DOMAIN prices
                          /\ last'.ret = cash + MarkedWith(AllOpen, prices)
                 ELSE /\ last'.err = "price not found"
                      /\ HeldItems # {}]_vars

C19_Witness ==
    /\ last.op = "portfolio_value"
    /\ last.err = "none"
    /\ closed_positions # <<>>
    /\ AllOpen # <<>>
    /\ last.ret > cash

\* C20 (SpecMetrics): the dates of value_history are strictly increasing in
\* every state; an update call, accepted or rejected, never shortens the
\* history and never changes the date of an entry or the value of an entry
\* before the last; a rejected call changes nothing.
C20_HistoryIncreasing ==
    /\ [](\A k \in 1..(Len(value_history) - 1) :
              value_history[k].date < value_history[k + 1].date)
    /\ [][/\ Len(value_history') >= Len(value_history)
          /\ \A k \in 1..Len(value_history) :
                 /\ value_history'[k].date = value_history[k].date
                 /\ k < Len(value_history) =>
                        value_history'[k] = value_history[k]]_vars
    /\ [][(last'.op = "update" /\ last'.err # "none") =>
              UNCHANGED value_history]_vars

C20_Witness ==
    /\ last.op = "update"
    /\ last.err = "out of order"
    /\ Len(value_history) = 3
    /\ value_history[1].value # initial_cash

\* an update step that follows an accepted update for the same date
SameDateAgain ==
    /\ last.op = "update"
    /\ last.err = "none"
    /\ last'.op = "update"
    /\ last'.ret.date = last.ret.date

\* C21 (SpecMetrics): update(d, v2) right after an accepted update(d, v1)
\* is accepted, keeps the length of value_history, leaves exactly one entry
\* for d, the last one, with value v2, and keeps every earlier entry.
C21_SameDayOverwrite ==
    [][SameDateAgain =>
          /\ last'.err = "none"
          /\ Len(value_history') = Len(value_history)
          /\ value_history'[Len(value_history')]
                 = [date |-> last'.ret.date, value |-> last'.ret.value]
          /\ Cardinality({k \in 1..Len(value_history') :
                             value_history'[k].date = last'.ret.date}) = 1
          /\ \A k \in 1..(Len(value_history) - 1) :
                 value_history'[k] = value_history[k]]_vars

\* an entry that an update appended was overwritten by a second update
C21_Witness ==
    /\ last.op = "update"
    /\ last.err = "none"
    /\ last.ret.branch = "overwrite"
    /\ Len(value_history) = 3
    /\ value_history[3].value = 4

\* C22 (SpecMetrics): an update whose date is earlier than the last recorded
\* date raises the out-of-order error and value_history is as before; no
\* other update raises.
C22_StaleRejected ==
    /\ [](\A d \in Days :
              UpdateStale(value_history, d)
                  <=> d < value_history[Len(value_history)].date)
    /\ [][last'.op = "update" =>
              IF last'.ret.date < value_history[Len(value_history)].date
              THEN /\ last'.err = "out of order"
                   /\ UNCHANGED value_history
              ELSE last'.err = "none"]_vars

C22_Witness ==
    /\ last.op = "update"
    /\ last.err = "out of order"
    /\ last.ret.branch = "raise"
    /\ Len(value_history) = 2
    /\ last.ret.date < value_history[2].date
    /\ last.ret.date > value_history[1].date

\* C23 as claimed (SpecMetrics): the first entry of value_history is the
\* start date with the initial cash, whatever updates were called.
C23_FirstEntryInitial ==
    /\ value_history # <<>>
    /\ value_history[1].date \in Days
    /\ value_history[1].value = initial_cash

\* the profit or loss the claim gives for a closed position
ClaimedProfitLoss(position) ==
    (position.close_transaction.price - position.open_transaction.price)
            * position.open_transaction.quantity
        - position.open_transaction.transaction_cost
        - position.close_transaction.transaction_cost

\* C24 (SpecLedger): every closed position, long or short, has
\* realized_profit_loss = sale_proceeds - cost_basis
\* = (close.price - open.price) * open.quantity - both transaction costs;
\* the portfolio's realized_profit_loss is the sum of these over
\* closed_positions, and every open position yields 0.
C24_RealizedProfitLoss ==
    /\ \A k \in 1..Len(closed_positions) :
          /\ is_closed(closed_positions[k])
          /\ realized_profit_loss(closed_positions[k])
                 = sale_proceeds(closed_positions[k]) - cost_basis(closed_positions[k])
          /\ realized_profit_loss(closed_positions[k])
                 = ClaimedProfitLoss(closed_positions[k])
    /\ portfolio_realized_profit_loss = SumSeq(ClaimedProfitLoss, closed_positions)
    /\ \A k \in 1..Len(AllOpen) : realized_profit_loss(AllOpen[k]) = 0

\* a short closed at a higher price and with a cost, hence at a loss, next
\* to a position that is still open
C24_Witness ==
    /\ AllOpen # <<>>
    /\ \E k \in 1..Len(closed_positions) :
          /\ closed_positions[k].open_transaction.quantity < 0
          /\ closed_positions[k].close_transaction.transaction_cost > 0
          /\ closed_positions[k].close_transaction.price
                 # closed_positions[k].open_transaction.price
          /\ realized_profit_loss(closed_positions[k]) < 0
    /\ portfolio_realized_profit_loss < 0

NonDecreasing(h) == \A k \in 1..(Len(h) - 1) : h[k].value <= h[k + 1].value

Flat(h) == \A k \in 1..Len(h) : h[k].value = h[1].value

\* C25 as claimed (SpecMetrics): with two or more points recorded,
\* calculate_max_drawdown returns a number that is at most 0, and that is 0
\* exactly when the recorded values never decrease.
C25_DrawdownBound ==
    (last.op = "calculate_max_drawdown" /\ Len(value_history) >= 2) =>
        /\ last.ret.kind = "float"
        /\ last.ret.num <= 0
        /\ last.ret.num = 0 <=> NonDecreasing(value_history)

\* C26 as claimed (SpecMetrics): with zero volatility the Sharpe ratio is 0,
\* +inf or -inf as the CAGR is equal to, above or below the risk-free rate;
\* a flat history of two or more points has CAGR 0, maximum drawdown 0,
\* Sharpe 0 at rate 0 and Sharpe -inf at a positive rate.
C26_ZeroVolatilitySharpe ==
    (last.op = "calculate_sharpe_ratio" /\ Len(value_history) >= 2) =>
        LET annual_return == calculate_annualized_return(value_history)
            order == CompareToRate(annual_return, last.ret.rate)
        IN /\ (/\ calculate_annualized_volatility(value_history) = Float(0, 1)
               /\ annual_return.kind = "float") =>
                  last.ret.sharpe = IF order = 0 THEN Float(0, 1)
                                    ELSE IF order > 0 THEN Special("inf")
                                    ELSE Special("-inf")
           /\ Flat(value_history) =>
                  /\ annual_return = Float(0, 1)
                  /\ calculate_max_drawdown(value_history) = Float(0, 1)
                  /\ last.ret.sharpe = IF last.ret.rate = 0 THEN Float(0, 1)
                                       ELSE Special("-inf")

\* C27 (SpecRun): the date list run_backtest builds is strictly ascending,
\* hence without duplicates, and holds exactly the dates on which at least
\* one instrument has a bar and that lie within start_date and the end date
\* (no upper limit beyond the data when no end date is given); when the
\* list is empty backtest_loop is not run.
C27_TradingDates ==
    pc # "run" =>
        /\ \A k \in 1..(Len(dates) - 1) : dates[k] < dates[k + 1]
        /\ SeqSet(dates)
             = {d \in DataDays :
                   /\ \E item \in AllowedItems : HasBar(item, d)
                   /\ start_date <= d
                   /\ end_date # NoEndDate => d <= end_date}
        /\ pc = "returned" <=> dates = <<>>
        /\ pc = "loop" <=> dates # <<>>

\* two dates kept, one bar before start_date and one after the end date
C27_Witness ==
    /\ pc = "loop"
    /\ Len(dates) = 2
    /\ end_date # NoEndDate
    /\ \E r \in ticker : DateOf(r.ts) < start_date
    /\ \E r \in ticker : DateOf(r.ts) > end_date
    /\ \E r \in ticker : DateOf(r.ts) = end_date

\* C28 as claimed (SpecMaskAny): whenever the dataset holds data of a
\* requirement other than TICKER and OPTIONS, create_masked_data raises the
\* unsupported-type error and returns no view.
C28_UnsupportedTypeError ==
    (pc # "call" /\ other # {}) =>
        /\ pc = "raised"
        /\ last.err = "NotImplementedError"
        /\ masked_data = NoMaskedData

\* C28 amended (SpecMaskAny): whenever the dataset holds data of a
\* requirement other than TICKER and OPTIONS, create_masked_data raises and
\* returns no view, so that data is never passed on; the error is the
\* unsupported-type error unless a TICKER or OPTIONS frame without its
\* expected structure is met first, whose ValueError is raised instead; and
\* the unsupported-type error is raised for no other dataset.
C28_UnsupportedTypeRaises ==
    /\ (pc # "call" /\ other # {}) =>
          /\ pc = "raised"
          /\ last.op = "create_masked_data"
          /\ last.err \in {"NotImplementedError", "ValueError"}
          /\ malformed = {} => last.err = "NotImplementedError"
          /\ masked_data = NoMaskedData
    /\ (pc = "raised" /\ last.err = "NotImplementedError") => other # {}
    /\ pc = "masked" => other = {}

\* the unsupported-type error, raised for a dataset whose TICKER and OPTIONS
\* frames are in order and not empty
C28_Witness ==
    /\ pc = "raised"
    /\ last.err = "NotImplementedError"
    /\ other # {}
    /\ malformed = {}
    /\ ticker # {}
    /\ options # {}

\* C29 as claimed (SpecMask): the view for cutoff date d holds exactly the
\* ticker rows stamped on a calendar date up to d, the rows of d itself
\* included whatever their time of day.
C29_CutoffDayKept ==
    pc = "masked" =>
        masked_data.ticker = {r \in ticker : DateOf(r.ts) <= dates[idx]}

\* C30 (Spec): every step backtest_loop takes outside strategy.execute, the
\* valuation, the masking, the bar extraction, the skip and the return,
\* leaves cash, the open-position map and closed_positions as they are and
\* makes no open_position or close_position call.
C30_LoopKeepsLedger ==
    [][pc # "exec" => UNCHANGED <<ledger, last>>]_vars

\* the loop went through its last date and returned while the strategy's
\* positions, open and closed, were in the ledger
C30_Witness ==
    /\ pc = "done"
    /\ Len(dates) = 3
    /\ AllOpen # <<>>
    /\ closed_positions # <<>>
    /\ cash # initial_cash
    /\ DOMAIN recorded = {1, 2, 3}

\* C31 as claimed (SpecAccessors): whatever a caller does to the list it
\* got from get_open_positions_by_item or from closed_positions, the
\* portfolio's open positions, closed positions and cash stay as they are.
C31_AccessorsReturnCopies ==
    [][last'.op \in {"get_open_positions_by_item", "closed_positions"}
          => UNCHANGED ledger]_vars

\* C32 as claimed (SpecLedger): with allow_short off, no open position has
\* a negative quantity, and no open_position call with a negative quantity
\* succeeds.
C32_NoShortWithoutPermission ==
    ~allow_short =>
        \A k \in 1..Len(AllOpen) : AllOpen[k].open_transaction.quantity > 0

\* C33 as claimed (SpecMargin): with allow_margin off, cash never falls
\* below zero by an accepted open_position call of positive quantity, as
\* such a call is accepted only when cash covers price * quantity + cost.
C33_NoLongBeyondCash ==
    [][(/\ ~allow_margin
        /\ last'.op = "open_position"
        /\ last'.err = "none"
        /\ \E item \in DOMAIN open_positions' :
              LET positions == open_positions'[item]
              IN /\ Len(positions) = Len(get_open_positions_by_item(item)) + 1
                 /\ positions[Len(positions)].open_transaction.quantity > 0)
          => cash' >= 0]_vars

\* C34 (SpecLedger): a close_position call that raises, for whatever
\* reason, leaves cash, the open-position map and closed_positions as they
\* were; and once the checks of close_position have passed, nothing that
\* follows the removal from the open map can raise.
C34_CloseAtomic ==
    /\ [](\A position \in CallerPositions, c \in Transactions :
              ClosePositionError(position, c) = "ok"
                  => CloseLateError(position, c) = "ok")
    /\ [][(last'.op = "close_position" /\ last'.err # "none")
              => UNCHANGED ledger]_vars

\* a close of a position that is not tracked was refused while the ledger
\* held open and closed positions
C34_Witness ==
    /\ last.op = "close_position"
    /\ last.err = "not found"
    /\ Len(AllOpen) = 1
    /\ Len(closed_positions) = 1
    /\ cash # initial_cash

\* C35 (SpecLedger): the open positions and the closed positions together
\* are as many as the accepted open_position calls: the ledger starts with
\* none, an accepted open_position adds one open position, an accepted
\* close_position moves one from the open map to closed_positions, and no
\* other call changes either; no tracked open position is closed and every
\* entry of closed_positions is closed, so none is in both.
C35_OpenOrClosed ==
    /\ [](/\ \A k \in 1..Len(AllOpen) : ~is_closed(AllOpen[k])
          /\ \A k \in 1..Len(closed_positions) : is_closed(closed_positions[k]))
    /\ [][/\ PositionCount' = PositionCount + (IF OpenAccepted THEN 1 ELSE 0)
          /\ Len(closed_positions')
                 = Len(closed_positions) + (IF CloseAccepted THEN 1 ELSE 0)]_vars

\* a position was opened after another one had been closed
C35_Witness ==
    /\ last.op = "open_position"
    /\ last.err = "none"
    /\ Len(AllOpen) = 1
    /\ Len(closed_positions) = 1
    /\ closed_positions[1].open_transaction = AllOpen[1].open_transaction

\* C36 (SpecLedger): in every ledger state without open positions, cash is
\* initial_cash plus the realized profit or loss, and portfolio_value
\* raises for no price map and returns the cash for each.
C36_FlatLedger ==
    AllOpen = <<>> =>
        /\ cash = initial_cash + portfolio_realized_profit_loss
        /\ \A prices \in PriceMaps :
               /\ ~PricesMissing(prices)
               /\ portfolio_value(prices) = cash
        /\ last.op = "portfolio_value" => last.err = "none" /\ last.ret = cash

\* portfolio_value was called after every position had been closed, one of
\* them at a loss
C36_Witness ==
    /\ AllOpen = <<>>
    /\ Len(closed_positions) = 2
    /\ last.op = "portfolio_value"
    /\ last.ret = cash
    /\ cash < initial_cash
    /\ \E k \in 1..2 : closed_positions[k].close_transaction.transaction_cost > 0

\* C37 (Spec): while strategy.execute runs for dates[idx], a position dated
\* from the next-day bars in this call cannot be closed in it, the close
\* being dated the same day and rejected, while every position opened in an
\* earlier call can be closed, the call for dates[idx+1] being the first
\* that can; and every closed position was closed after the day it was
\* opened.
C37_CloseNextCall ==
    /\ pc = "exec" =>
          \A k \in 1..Len(AllOpen) :
              LET position == AllOpen[k]
                  item == position.open_transaction.tradeable_item
                  thisCall == position.open_transaction.date = dates[idx + 1]
              IN /\ position.open_transaction.date <= dates[idx + 1]
                 /\ thisCall => calls >= 1
                 /\ ~thisCall => position.open_transaction.date <= dates[idx]
                 /\ item \in DOMAIN next_day_data =>
                        ClosePositionError(position, StrategyCloseTransaction(position))
                            = IF thisCall THEN "date" ELSE "ok"
    /\ (pc = "exec" /\ last.op = "close_position" /\ last.err = "date" /\ calls >= 1) =>
          \E k \in 1..Len(AllOpen) :
              AllOpen[k].open_transaction.date = dates[idx + 1]
    /\ \A k \in 1..Len(closed_positions) :
          closed_positions[k].close_transaction.date
              > closed_positions[k].open_transaction.date

\* the strategy opened a position and its close in the same call was
\* refused, in the call after the one that opened another position
C37_Witness ==
    /\ pc = "exec"
    /\ idx = 2
    /\ calls = 2
    /\ last.op = "close_position"
    /\ last.err = "date"
    /\ Len(AllOpen) = 2
    /\ \E k \in 1..2 : AllOpen[k].open_transaction.date = dates[2]
    /\ \E k \in 1..2 : AllOpen[k].open_transaction.date = dates[3]

\* C38 (SpecRunLoop): in run_backtest no update raises the out-of-order
\* error: the date about to be valued is never earlier than the last
\* recorded one, each date is valued at most once and in list order, the
\* recorded dates are strictly increasing, start at start_date and are
\* trading dates from then on; and no execution is skipped, every trading
\* date having a bar.
C38_NoStaleUpdate ==
    /\ staleRaised = "no"
    /\ (pc = "loop" /\ idx <= Len(dates)) =>
           ~UpdateStale(value_history, dates[idx])
    /\ valued = [k \in 1..Len(valued) |-> k]
    /\ DOMAIN recorded \subseteq SeqSet(valued)
    /\ value_history[1].date = start_date
    /\ \A k \in 1..(Len(value_history) - 1) :
           value_history[k].date < value_history[k + 1].date
    /\ \A k \in 2..Len(value_history) : value_history[k].date \in SeqSet(dates)
    /\ (pc = "mask" /\ NotLastDate(idx)) =>
           DOMAIN extract_ohlc_data(NextDate(idx)) # {}

\* a run over three trading dates, the first of them start_date itself,
\* with a bar before start_date in the data
C38_Witness ==
    /\ pc = "done"
    /\ Len(dates) = 3
    /\ dates[1] = start_date
    /\ Len(value_history) = 3
    /\ \E r \in ticker : DateOf(r.ts) < start_date
    /\ cash # initial_cash

\* the cost of an allocation at the next-day open prices
RECURSIVE AllocationCost(_, _)
AllocationCost(quantities, data) ==
    IF DOMAIN quantities = {}
    THEN 0
    ELSE LET item == CHOOSE i \in DOMAIN quantities : TRUE
         IN quantities[item] * data[item].open
                + AllocationCost([i \in DOMAIN quantities \ {item}
                                      |-> quantities[i]], data)

\* the buy signals that have a positive next-day open price
PricedSignals(buy_signals, data) ==
    {item \in SeqSet(buy_signals) : item \in DOMAIN data /\ data[item].open > 0}

\* C39 as claimed (SpecAllocation): every returned quantity belongs to a
\* priced buy signal, is a positive whole number, and is the floor of
\* (cash / number of priced buy signals) / open price; the quantities at
\* their open prices cost at most the cash; and nothing is allocated when
\* cash <= 0 or there is no buy signal.
C39_AllocationAtMostCash ==
    last.op = "allocate_capital" =>
        LET quantities == last.ret.allocated_quantities
            priced == PricedSignals(last.ret.buy_signals, next_day_data)
            n == Cardinality(priced)
        IN /\ DOMAIN quantities \subseteq priced
           /\ \A item \in DOMAIN quantities :
                 LET price == next_day_data[item].open
                 IN /\ quantities[item] \in Nat \ {0}
                    /\ quantities[item] * n * price <= cash
                    /\ (quantities[item] + 1) * n * price > cash
           /\ AllocationCost(quantities, next_day_data) <= cash
           /\ (cash <= 0 \/ last.ret.buy_signals = <<>>) => quantities = <<>>

\* C39 amended (SpecAllocation): every returned quantity belongs to a priced
\* buy signal, is a positive whole number, and is the floor of
\* (cash / number of priced buy signals) / open price; nothing is allocated
\* when cash <= 0 or there is no buy signal; and the quantities at their
\* open prices cost at most the cash when the cash is not negative, and
\* nothing when it is negative (an overdrawn portfolio commits 0, which is
\* more than its cash).
C39_AllocationWithinCash ==
    last.op = "allocate_capital" =>
        LET quantities == last.ret.allocated_quantities
            priced == PricedSignals(last.ret.buy_signals, next_day_data)
            n == Cardinality(priced)
            cost == AllocationCost(quantities, next_day_data)
        IN /\ DOMAIN quantities \subseteq priced
           /\ \A item \in DOMAIN quantities :
                 LET price == next_day_data[item].open
                 IN /\ quantities[item] \in Nat \ {0}
                    /\ quantities[item] * n * price <= cash
                    /\ (quantities[item] + 1) * n * price > cash
           /\ cash >= 0 => cost <= cash
           /\ cash < 0 => cost = 0
           /\ (cash <= 0 \/ last.ret.buy_signals = <<>>) => quantities = <<>>

\* two priced signals allocated different quantities, cash left over
C39_Witness ==
    /\ last.op = "allocate_capital"
    /\ Cardinality(DOMAIN last.ret.allocated_quantities) = 2
    /\ last.ret.allocated_quantities["A"] # last.ret.allocated_quantities["B"]
    /\ AllocationCost(last.ret.allocated_quantities, next_day_data) < cash

\* C40 (SpecReturns): calculate_returns never yields a stale series: after
\* any interleaving of update and calculate_returns, what was last returned
\* is the series of period-over-period changes of the current value
\* history, and a cached series is always that of the current history.
C40_ReturnsNeverStale ==
    /\ returns_series.kind # "None" =>
           returns_series = calculate_returns(value_history)
    /\ last.op = "calculate_returns" =>
           last.ret.returns = calculate_returns(value_history)

\* daily returns answered from the cache, for a history whose latest value
\* was recorded over three dates and moved the value
C40_Witness ==
    /\ last.op = "calculate_returns"
    /\ last.ret.cached
    /\ Len(value_history) = 3
    /\ Len(last.ret.returns.values) = 2
    /\ last.ret.returns.values[1] # last.ret.returns.values[2]

====
